---- MODULE Spec2Model ----
(***************************************************************************)
(* Telephony <-> realtime speech bridge (RobertMaleki/CF-UDT-POC).         *)
(*                                                                         *)
(* One bridge session (one "connection" callback) of each bridge variant:  *)
(*   "A1"  backend/aiAgent.js, first module  (u-law batching, 800 bytes)   *)
(*   "A2"  backend/aiAgent.js, second module (time-throttled commits)      *)
(*   "SV"  backend/server.js                 (u-law batching, greet first) *)
(*   "P0"  unnamed/part_000                  (PCM16 16 kHz batching)       *)
(*   "P1"  unnamed/part_001                  (synchronous, unpaced)        *)
(*                                                                         *)
(* A step of the model is one run of JavaScript between two suspension     *)
(* points: a socket event handler up to its first await, the continuation  *)
(* of an await, or a timer callback.  Audio is kept as runs                *)
(* [src, off, len, fmt]: bytes/samples off .. off+len-1 of the audio       *)
(* block src, in format fmt.                                               *)
(***************************************************************************)
EXTENDS Integers, Sequences, FiniteSets, TLC

\* ------------------------------------------------------------------ bounds
MaxMedia == 3         \* telephony media events per session
MaxDeltas == 2        \* response.audio.delta events per session
MaxRespEvents == 2    \* response.created/completed/error events per session
ToneMsIn == 20        \* tone duration in SpecIn  (the code passes ToneMs)
ToneMsOut == 40       \* tone duration in SpecOut (the code passes ToneMs)
MaxBad == 2           \* messages without the expected structure per session
MaxIsoEvents == 5     \* events handled over two concurrent sessions (SpecIso)
MaxUpLen == 3         \* samples in a block given to upsampleTo16k (SpecUp)
MaxTicks == 2         \* keepalive interval periods per session (SpecPing)

PayloadLens == {160, 800}   \* bytes of a telephony media payload
DeltaLens == {320, 400}          \* samples (bytes in SV) of an audio delta
Variants == {"A1", "A2", "SV", "P0", "P1"}

\* ------------------------------------------------------- program constants
APPEND_THRESHOLD == 800
APPEND_SAMPLES_16K == 3200
FRAME == 160
frameSamples == 160
frameBytes == 160
ToneMs == 2000
SampleRate == 8000

NULL == "null"
SID == "SID1"
ZERO == <<"zero", 0>>
TONE == <<"tone", 0>>

VARIABLES
  variant,                 \* which bridge module serves the connection
  twPhase,                 \* telephony stream protocol: "connected" | "started" | "stopped"
  streamSid,
  twState,                 \* telephony socket: "open" | "closing" | "closed"
  oaiState,                \* speech socket: "none" | "connecting" | "open" | "closing" | "closed"
  openaiReady,
  responseInFlight,
  firstResponseRequested,
  ulawChunks,              \* Array<Buffer>, each Buffer a sequence of runs
  ulawBytesAccum,          \* ulawBytesAccum (aiAgent.js) / ulawBytes (server.js)
  pcm16kBatch,             \* twilioWS._pcm16kBatch (part_000)
  lastCommitAt,            \* 0, or 1 for the Date.now() of a commit (second aiAgent.js module)
  ingestQ,                 \* media handlers suspended in an await, oldest first
  frTimers,                \* pending first-response setTimeout callbacks
  pacerQ,                  \* paced senders suspended in sleep(frameMs), oldest first
  oaiLog,                  \* traffic of the speech socket, both directions
  twLog,                   \* send attempts on the telephony socket
  accepted,                \* history: audio appended to the accumulation buffer
  nMedia, nDelta, nResp, nextOrd,
  escaped,                 \* an exception left a handler (thrown, or a rejected async handler)
  nBad,                    \* messages without the expected structure handled so far
  sessions,                \* SpecIso: the variables of each connection callback's closure
  isoLog,                  \* SpecIso: paced-sender calls, [sock, sid, src]
  isoEv,                   \* SpecIso: <<events handled, connection of the last one>>
  codec,                   \* SpecCodec: [pc, s, mu, pcm, mu2], one sample or byte through the codec
  up,                      \* SpecUp: [pc, in, out, reads], one block through upsampleTo16k
  returned,                \* what each finished paced-sender call handed to its awaiting caller
  ping                     \* [interval, log, ticks]: the keepalive timer and the pings attempted

vars == <<variant, twPhase, streamSid, twState, oaiState,
          openaiReady, responseInFlight, firstResponseRequested, ulawChunks,
          ulawBytesAccum, pcm16kBatch, lastCommitAt, ingestQ, frTimers, pacerQ,
          oaiLog, twLog, accepted, nMedia, nDelta, nResp, nextOrd, escaped, nBad,
          sessions, isoLog, isoEv, codec, up, returned, ping>>

\* ----------------------------------------------------------------- audio
Min(a, b) == IF a < b THEN a ELSE b

Run(src, off, len, fmt) == [src |-> src, off |-> off, len |-> len, fmt |-> fmt]

RECURSIVE ByteLength(_)
ByteLength(rs) == IF rs = <<>> THEN 0 ELSE Head(rs).len + ByteLength(Tail(rs))

\* TypedArray.prototype.subarray / Buffer.prototype.subarray: elements
\* [begin, end), both clamped to the length.
RECURSIVE subarray(_, _, _)
subarray(rs, begin, end) ==
  IF rs = <<>> \/ end <= 0 \/ begin >= end THEN <<>>
  ELSE LET h == Head(rs) IN
       IF begin >= h.len THEN subarray(Tail(rs), begin - h.len, end - h.len)
       ELSE LET to == Min(end, h.len) IN
            <<[h EXCEPT !.off = h.off + begin, !.len = to - begin]>>
              \o subarray(Tail(rs), 0, end - h.len)

RECURSIVE Flatten(_)
Flatten(list) == IF list = <<>> THEN <<>> ELSE Head(list) \o Flatten(Tail(list))

\* Buffer.concat(list, totalLength): the buffers of list in order, cut to
\* totalLength bytes or zero-filled up to it.
BufferConcat(list, totalLength) ==
  LET all == Flatten(list)
      n == ByteLength(all)
  IN IF totalLength <= n THEN subarray(all, 0, totalLength)
     ELSE all \o <<Run(ZERO, 0, totalLength - n, "ulaw")>>

\* Adjacent runs that continue each other read as one run.
RECURSIVE Coalesce(_)
Coalesce(rs) ==
  IF Len(rs) < 2 THEN rs
  ELSE LET a == rs[1]
           b == rs[2]
       IN IF a.src = b.src /\ a.fmt = b.fmt /\ b.off = a.off + a.len
          THEN Coalesce(<<[a EXCEPT !.len = a.len + b.len]>> \o SubSeq(rs, 3, Len(rs)))
          ELSE <<a>> \o Coalesce(Tail(rs))

SetFmt(rs, fmt) == [i \in 1..Len(rs) |-> [rs[i] EXCEPT !.fmt = fmt]]

\* pcm16ToMuLawB64: one companded byte per sample, in order.
pcm16ToMuLawB64(int16) == SetFmt(int16, "ulaw")

\* muLawB64ToPCM16 / the decode loop of part_000: one sample per byte.
muLawB64ToPCM16(u8) == SetFmt(u8, "pcm8k")

\* upsampleTo16k: out[2i], out[2i+1] from in[i] (and in[i+1]).
upsampleTo16k(pcm8k) ==
  [i \in 1..Len(pcm8k) |->
     [pcm8k[i] EXCEPT !.off = 2 * pcm8k[i].off, !.len = 2 * pcm8k[i].len, !.fmt = "pcm16k"]]

\* generateTonePCM16({ms, sampleRate}): Math.floor((ms / 1000) * sampleRate) samples.
generateTonePCM16(ms, sampleRate) == <<Run(TONE, 0, (ms * sampleRate) \div 1000, "pcm8k")>>

\* ------------------------------------------------------------ u-law codec
BIAS == 132           \* 0x84
SIGN_BIT == 128       \* 0x80
QUANT_MASK == 15      \* 0x0F
SEG_MASK == 112       \* 0x70
INT16_MIN == -32768   \* element range of Int16Array
INT16_MAX == 32767

\* x >> n on a 32-bit integer (arithmetic), x << n without overflow
Shr(x, n) == x \div (2 ^ n)
Shl(x, n) == x * (2 ^ n)

\* x & mask for a mask of n one-bits starting at bit lo (two's complement x)
BitsAt(x, lo, n) == (Shr(x, lo) % (2 ^ n)) * (2 ^ lo)

\* ~x & 0xff
NotByte(x) == 255 - (x % 256)

\* for (expMask = 0x4000; (sample & expMask) === 0 && exponent > 0; exponent--, expMask >>= 1) {}
RECURSIVE ExponentLoop(_, _, _)
ExponentLoop(sample, exponent, expMask) ==
  IF (sample \div expMask) % 2 = 0 /\ exponent > 0      \* sample is 132..32767 here
  THEN ExponentLoop(sample, exponent - 1, expMask \div 2)
  ELSE exponent

\* mulawToPcm16 without the final removal of the bias.
mulawToPcm16_BiasKept(uVal) ==
  LET u == NotByte(uVal)
      t == Shl(Shl(BitsAt(u, 0, 4), 3) + BIAS, Shr(BitsAt(u, 4, 3), 4))
  IN IF BitsAt(u, 7, 1) # 0 THEN -t ELSE t

\* mulawToPcm16(uVal)
mulawToPcm16(uVal) ==
  LET u == NotByte(uVal)
      t0 == Shl(BitsAt(u, 0, 4), 3) + BIAS                  \* ((u & QUANT_MASK) << 3) + BIAS
      t == Shl(t0, Shr(BitsAt(u, 4, 3), 4))                 \* t <<= (u & SEG_MASK) >> 4
  IN IF BitsAt(u, 7, 1) # 0 THEN BIAS - t ELSE t - BIAS     \* u & SIGN_BIT

\* (exponent === 0) ? 4 : (exponent + 3)
MantissaShift(exponent) == IF exponent = 0 THEN 4 ELSE exponent + 3

\* pcm16ToMulaw(sample)
pcm16ToMulaw(sample) ==
  LET sign == BitsAt(Shr(sample, 8), 7, 1)                  \* (sample >> 8) & 0x80
      mag == IF sign # 0 THEN -sample ELSE sample
      clipped == IF mag > 32635 THEN 32635 ELSE mag
      biased == clipped + BIAS
      exponent == ExponentLoop(biased, 7, 16384)
      mantissa == BitsAt(Shr(biased, MantissaShift(exponent)), 0, 4)
  IN NotByte(sign + Shl(exponent, 4) + mantissa)            \* fields are disjoint: | is +

\* ------------------------------------------------- upsampling, sample values
\* A store into an Int16Array element: the value modulo 2^16, as signed.
ToInt16(x) == ((x + 32768) % 65536) - 32768

\* The index read for b without the test against the block length.
NextIndex_Unguarded(i, n) == i + 1

\* (i + 1 < pcm8k.length) ? pcm8k[i + 1] : a  -- the index b is read from
NextIndex(i, n) == IF i + 1 < n THEN i + 1 ELSE i

\* (a + b) >> 1, b read at index ib; a read outside the array gives undefined,
\* a + undefined is NaN, and NaN >> 1 is 0.
Interp(pcm8k, a, ib) ==
  IF ib < Len(pcm8k) THEN Shr(a + pcm8k[ib + 1], 1) ELSE 0

\* The loop of upsampleTo16k from index i on, on sample values: the output
\* block and the set of input indices read.
RECURSIVE UpsampleLoop(_, _, _, _)
UpsampleLoop(pcm8k, i, out, reads) ==
  IF i < Len(pcm8k)
  THEN LET a == pcm8k[i + 1]
           ib == NextIndex(i, Len(pcm8k))
       IN UpsampleLoop(pcm8k, i + 1,
                       out \o <<ToInt16(a), ToInt16(Interp(pcm8k, a, ib))>>,
                       reads \cup {i, ib})
  ELSE [out |-> out, reads |-> reads]

\* ---------------------------------------------------------------- sockets
\* ws send(): delivered on an OPEN socket, throws while CONNECTING; on a
\* CLOSING/CLOSED socket it throws or silently drops the data (the ws package
\* is not part of the sources: either outcome is possible).
SendResults(state) ==
  IF state = "open" THEN {"sent"}
  ELSE IF state = "connecting" THEN {"threw"}
  ELSE {"threw", "dropped"}

\* close() that leaves the socket as it is.
Close_Noop(state) == state

\* ws close(): OPEN/CONNECTING -> CLOSING; a no-op otherwise (and for openaiWS?.close()
\* when no socket was created).
Close(state) == IF state \in {"connecting", "open"} THEN "closing" ELSE state

OaiOut(type, audio, src, res, rif) ==
  [dir |-> "out", type |-> type, audio |-> audio, src |-> src, res |-> res, rif |-> rif]

OaiIn(type, rif) ==
  [dir |-> "in", type |-> type, audio |-> <<>>, src |-> "remote", res |-> "recv", rif |-> rif]

\* A send attempt on the telephony socket: message kind, the streamSid it carries,
\* its payload, and (history) the function and block it comes from.
TwOut(kind, fn, sid, payload, off, seq, res, block, ord) ==
  [kind |-> kind, fn |-> fn, sid |-> sid, payload |-> payload, off |-> off, seq |-> seq,
   res |-> res, block |-> block, ord |-> ord]

\* ------------------------------------------------------------ paced senders
PacedSenderOf(v) ==
  CASE v \in {"A1", "P0"} -> "sendPCM16AsPacedUlawFrames"
    [] v = "SV" -> "sendULawB64Paced"
    [] v = "A2" -> "sendMuLawFramesPaced"

\* The catch clause of the sender's try { twilioWS.send(...) }: break or go on.
BreaksOnSendError(fn) == fn # "sendMuLawFramesPaced"

\* FrameOf with the slice taken one sample too long.
FrameOf_OneTooLong(fn, block, i, frame) ==
  IF fn = "sendULawB64Paced" THEN subarray(block, i, i + frame + 1)
  ELSE pcm16ToMuLawB64(subarray(block, i, i + frame + 1))

\* The payload of the frame at index i: the slice [i, i + frame) of the block,
\* companded unless the block is companded already (sendULawB64Paced).
FrameOf(fn, block, i, frame) ==
  IF fn = "sendULawB64Paced" THEN subarray(block, i, i + frame)
  ELSE pcm16ToMuLawB64(subarray(block, i, i + frame))

\* sequenceNumber of a frame: a per-call counter in sendMuLawFramesPaced, absent elsewhere.
SeqOf(p) == IF p.fn = "sendMuLawFramesPaced" THEN p.i \div p.frame ELSE -1

Pacer(fn, sid, block, frame, ord) ==
  [fn |-> fn, sid |-> sid, block |-> block, len |-> ByteLength(block), frame |-> frame,
   ord |-> ord, i |-> 0]

\* How a paced-sender call settles for the caller that awaits it: the async
\* function has no return statement and catches every send error, so its
\* promise resolves with undefined whether the loop ran to the end or broke.
Settled(p) == [ord |-> p.ord, settled |-> "resolved", value |-> "undefined"]

\* One pass of the sender's loop, from the loop test to the next sleep(frameMs):
\* p.i is the loop index, q the other suspended senders.
PacedLoop(p, q) ==
  IF p.i < p.len
  THEN \E res \in SendResults(twState) :
         /\ twLog' = Append(twLog,
              TwOut("media", p.fn, p.sid, FrameOf(p.fn, p.block, p.i, p.frame), p.i,
                    SeqOf(p), res, p.block, p.ord))
         /\ IF res = "threw" /\ BreaksOnSendError(p.fn)
            THEN /\ pacerQ' = q
                 /\ returned' = Append(returned, Settled(p))
            ELSE /\ pacerQ' = Append(q, [p EXCEPT !.i = p.i + p.frame])
                 /\ returned' = returned
  ELSE /\ twLog' = twLog
       /\ pacerQ' = q
       /\ returned' = Append(returned, Settled(p))

\* ------------------------------------------------------------ turn state
\* OnRealtimeEvent without the response.error branch.
OnRealtimeEvent_NoErrorReset(type, rif) ==
  CASE type = "response.created" -> TRUE
    [] type = "response.completed" -> FALSE
    [] OTHER -> rif

\* openaiWS.on("message"): the effect of a message type on responseInFlight.
OnRealtimeEvent(type, rif) ==
  CASE type = "response.created" -> TRUE
    [] type = "response.completed" -> FALSE
    [] type = "response.error" -> FALSE
    [] OTHER -> rif

\* The drain condition of the media handler.
ShouldSubmit(v, buffered, rif, state) ==
  CASE v = "A1" -> buffered >= APPEND_THRESHOLD /\ ~rif
    [] v = "SV" -> buffered >= APPEND_THRESHOLD /\ state = "open"
    [] v = "P0" -> buffered >= APPEND_SAMPLES_16K /\ ~rif
    [] OTHER -> FALSE

\* push at the head of the array (unshift).
push_Unshift(chunks, chunk) == <<chunk>> \o chunks

\* ulawChunks.push(chunk)
push(chunks, chunk) == Append(chunks, chunk)

\* ------------------------------------------------ two concurrent connections
Conns == {1, 2}

\* The let-variables declared inside the connection callback, and the two sockets.
NewSession ==
  [streamSid |-> NULL, openaiReady |-> FALSE, responseInFlight |-> FALSE,
   firstResponseRequested |-> FALSE, ulawChunks |-> <<>>, ulawBytesAccum |-> 0,
   twState |-> "open", oaiState |-> "connecting"]

\* Variables shared by all connections (declared at module level).
Scope_ModuleLevel(k) == 1

\* Where the session variables of connection k live: they are declared inside
\* the callback of wss.on("connection"), one set per connection.
Scope(k) == k

\* msg.start.streamSid of connection k
SidOf(k) == IF k = 1 THEN SID ELSE "SID2"

\* Whether the connection handler starts a keepalive interval (setInterval of
\* the two pings): every module but server.js.
HasKeepalive(v) == v # "SV"

Init ==
  /\ variant \in Variants
  /\ twPhase = "connected"
  /\ streamSid = NULL
  /\ twState = "open"
  /\ oaiState \in (IF variant \in {"SV", "P1"} THEN {"connecting"} ELSE {"connecting", "none"})
  /\ openaiReady = FALSE
  /\ responseInFlight = FALSE
  /\ firstResponseRequested = FALSE
  /\ ulawChunks = <<>>
  /\ ulawBytesAccum = 0
  /\ pcm16kBatch = <<>>
  /\ lastCommitAt = 0
  /\ ingestQ = <<>>
  /\ frTimers = 0
  /\ pacerQ = <<>>
  /\ oaiLog = <<>>
  /\ twLog = <<>>
  /\ accepted = <<>>
  /\ nMedia = 0
  /\ nDelta = 0
  /\ nResp = 0
  /\ nextOrd = 1
  /\ escaped = FALSE
  /\ nBad = 0
  /\ sessions = [k \in Conns |-> NewSession]
  /\ isoLog = <<>>
  /\ isoEv = <<0, 0>>
  /\ codec = [pc |-> "idle", s |-> 0, mu |-> 0, pcm |-> 0, mu2 |-> 0]
  /\ up = [pc |-> "idle", in |-> <<>>, out |-> <<>>, reads |-> {}]
  /\ returned = <<>>
  /\ ping = [interval |-> IF HasKeepalive(variant) THEN "set" ELSE "none", log |-> <<>>, ticks |-> 0]

isoVars == <<sessions, isoLog, isoEv>>
pureVars == <<codec, up>>
baseVars == <<variant, escaped, nBad, isoVars, pureVars>>
cfgVars == <<baseVars, ping>>
bufVars == <<ulawChunks, ulawBytesAccum, pcm16kBatch, accepted>>
turnVars == <<openaiReady, responseInFlight, firstResponseRequested, lastCommitAt>>
envVars == <<nMedia, nDelta, nResp>>

\* ------------------------------------------------------ speech socket events
\* openaiWS.on("open")
OaiOpen ==
  /\ oaiState = "connecting"
  /\ oaiState' = "open"
  /\ LET upd == OaiOut("session.update", <<>>, "open", "sent", responseInFlight)
         greet == OaiOut("response.create", <<>>, "greeting", "sent", responseInFlight)
     IN oaiLog' = IF variant \in {"SV", "A2", "P1"} THEN oaiLog \o <<upd, greet>>
                  ELSE Append(oaiLog, upd)
  /\ openaiReady' = IF variant \in {"A1", "A2", "P1"} THEN TRUE ELSE openaiReady
  /\ responseInFlight' = IF variant = "SV" THEN TRUE ELSE responseInFlight
  /\ firstResponseRequested' = IF variant = "SV" THEN TRUE ELSE firstResponseRequested
  /\ UNCHANGED <<cfgVars, bufVars, envVars, twPhase, streamSid, twState, lastCommitAt,
                 ingestQ, frTimers, pacerQ, returned, twLog, nextOrd>>

\* openaiWS.on("message"): response.created / response.completed / response.error
OaiResponseEvent(type) ==
  /\ oaiState = "open"
  /\ nResp < MaxRespEvents
  /\ nResp' = nResp + 1
  /\ oaiLog' = Append(oaiLog, OaiIn(type, responseInFlight))
  /\ responseInFlight' = OnRealtimeEvent(type, responseInFlight)
  /\ UNCHANGED <<cfgVars, bufVars, twPhase, streamSid, twState, oaiState, openaiReady,
                 firstResponseRequested, lastCommitAt, ingestQ, frTimers, pacerQ, returned, twLog,
                 nMedia, nDelta, nextOrd>>

\* openaiWS.on("message"): response.audio.delta with a non-empty audio field
OaiAudioDelta(len) ==
  /\ oaiState = "open"
  /\ nDelta < MaxDeltas
  /\ nDelta' = nDelta + 1
  /\ oaiLog' = Append(oaiLog, OaiIn("response.audio.delta", responseInFlight))
  /\ IF variant = "P1"
     THEN \* part_001: the whole block in one media message without a streamSid;
          \* a throwing send is caught by the handler's try
          \E res \in SendResults(twState) :
            LET block == <<Run(<<"d", nDelta + 1>>, 0, len, "pcm8k")>>
            IN /\ twLog' = Append(twLog,
                    TwOut("media", "direct", NULL, pcm16ToMuLawB64(block), 0, -1, res,
                          block, nextOrd))
               /\ nextOrd' = nextOrd + 1
               /\ pacerQ' = pacerQ
               /\ returned' = returned
     ELSE IF streamSid # NULL
     THEN /\ PacedLoop(Pacer(PacedSenderOf(variant), streamSid,
                             <<Run(<<"d", nDelta + 1>>, 0, len,
                                   IF variant = "SV" THEN "ulaw" ELSE "pcm8k")>>,
                             IF variant = "A2" THEN FRAME
                             ELSE IF variant = "SV" THEN frameBytes ELSE frameSamples,
                             nextOrd),
                       pacerQ)
          /\ nextOrd' = nextOrd + 1
     ELSE UNCHANGED <<twLog, pacerQ, returned, nextOrd>>
  /\ UNCHANGED <<cfgVars, bufVars, turnVars, twPhase, streamSid, twState, oaiState,
                 ingestQ, frTimers, nMedia, nResp>>

\* openaiWS.on("close"): the socket is gone (remote close, failure, or the end of
\* a close() started locally).
OaiClosed ==
  /\ oaiState \in {"connecting", "open", "closing"}
  /\ oaiState' = "closed"
  /\ twState' = IF variant = "SV" THEN Close(twState) ELSE twState
  /\ UNCHANGED <<cfgVars, bufVars, turnVars, envVars, twPhase, streamSid, ingestQ,
                 frTimers, pacerQ, returned, oaiLog, twLog, nextOrd>>

\* ---------------------------------------------------------- paced sender wake
\* sleep(frameMs) of the oldest suspended sender elapses.
PacerWake ==
  /\ pacerQ # <<>>
  /\ PacedLoop(Head(pacerQ), Tail(pacerQ))
  /\ UNCHANGED <<cfgVars, bufVars, turnVars, envVars, twPhase, streamSid, twState,
                 oaiState, ingestQ, frTimers, oaiLog, nextOrd>>

\* ------------------------------------------------------- telephony events
\* twilioWS.on("message"), case "start"
TwStart(ms) ==
  /\ twState = "open"
  /\ twPhase = "connected"
  /\ twPhase' = "started"
  /\ streamSid' = IF variant = "P1" THEN streamSid ELSE SID
  /\ LET tone == generateTonePCM16(ms, SampleRate)
         p == Pacer(PacedSenderOf(variant), SID, tone, frameSamples, nextOrd)
     IN CASE variant \in {"A1", "P0"} ->
               /\ PacedLoop(p, pacerQ)
               /\ nextOrd' = nextOrd + 1
          [] variant = "A2" ->
               \* the whole tone in one media message, then a mark
               /\ twLog' = twLog \o
                    << TwOut("media", "direct", SID, pcm16ToMuLawB64(tone), 0, -1, "sent",
                             tone, nextOrd),
                       TwOut("mark", "direct", SID, <<>>, 0, -1, "sent", <<>>, nextOrd) >>
               /\ nextOrd' = nextOrd + 1
               /\ pacerQ' = pacerQ
               /\ returned' = returned
          [] OTHER -> UNCHANGED <<twLog, pacerQ, returned, nextOrd>>
  /\ UNCHANGED <<cfgVars, bufVars, turnVars, envVars, twState, oaiState, ingestQ,
                 frTimers, oaiLog>>

\* case "media" of the batching handlers (aiAgent.js first module, server.js):
\* push the chunk, and drain + append when ShouldSubmit.
\* Accumulate counting every chunk as one 160-byte frame.
Accumulate_FrameAssumed(accum, chunk) == accum + frameBytes

\* ulawBytesAccum += chunk.length
Accumulate(accum, chunk) == accum + ByteLength(chunk)

MediaBatchUlaw(chunk) ==
  LET chunks1 == push(ulawChunks, chunk)
      accum1 == Accumulate(ulawBytesAccum, chunk)
  IN /\ accepted' = accepted \o chunk
     /\ pcm16kBatch' = pcm16kBatch
     /\ oaiState' = oaiState
     /\ IF ShouldSubmit(variant, accum1, responseInFlight, oaiState)
        THEN /\ ulawChunks' = <<>>
             /\ ulawBytesAccum' = 0
             /\ oaiLog' = Append(oaiLog,
                  OaiOut("input_audio_buffer.append", BufferConcat(chunks1, accum1),
                         "media", "sent", responseInFlight))
             /\ ingestQ' = Append(ingestQ, [pc |-> IF variant = "SV" THEN "cb" ELSE "sleep"])
        ELSE /\ ulawChunks' = chunks1
             /\ ulawBytesAccum' = accum1
             /\ UNCHANGED <<oaiLog, ingestQ>>

\* case "media" of part_000: decode, upsample, merge into _pcm16kBatch, drain the
\* first APPEND_SAMPLES_16K samples when ShouldSubmit.  The case has no break: the
\* handler goes on into case "stop" (here when it does not suspend first).
MediaBatchPcm16k(chunk) ==
  LET pcm16k == upsampleTo16k(muLawB64ToPCM16(chunk))
      merged == pcm16kBatch \o pcm16k
  IN /\ accepted' = accepted \o pcm16k
     /\ UNCHANGED <<ulawChunks, ulawBytesAccum>>
     /\ IF ShouldSubmit(variant, ByteLength(merged), responseInFlight, oaiState)
        THEN /\ pcm16kBatch' = subarray(merged, APPEND_SAMPLES_16K, ByteLength(merged))
             /\ oaiLog' = Append(oaiLog,
                  OaiOut("input_audio_buffer.append", subarray(merged, 0, APPEND_SAMPLES_16K),
                         "media", "sent", responseInFlight))
             /\ ingestQ' = Append(ingestQ, [pc |-> "sleep"])
             /\ oaiState' = oaiState
        ELSE /\ pcm16kBatch' = merged
             /\ oaiState' = Close(oaiState)
             /\ UNCHANGED <<oaiLog, ingestQ>>

\* case "media" of the second aiAgent.js module and of part_001: append every
\* frame, commit and request a response when 250 ms (200 ms in part_001) have
\* passed since the last commit.
\* CommitsNow without the test of the turn state.
CommitsNow_IgnoresFlight(shouldCommit, rif) == shouldCommit

\* if (shouldCommit && !responseInFlight)
CommitsNow(shouldCommit, rif) == shouldCommit /\ ~rif

MediaThrottled(chunk, elapsed) ==
  \E res \in SendResults(oaiState) :
  LET shouldCommit == (lastCommitAt = 0) \/ elapsed
      app == OaiOut("input_audio_buffer.append", muLawB64ToPCM16(chunk), "media", res,
                    responseInFlight)
      com == OaiOut("input_audio_buffer.commit", <<>>, "media", res, responseInFlight)
      crt == OaiOut("response.create", <<>>, "turn", res, responseInFlight)
  IN /\ UNCHANGED <<bufVars, ingestQ, oaiState, openaiReady, firstResponseRequested>>
     /\ IF res # "threw" /\ CommitsNow(shouldCommit, responseInFlight)
        THEN /\ oaiLog' = oaiLog \o <<app, com, crt>>
             /\ lastCommitAt' = 1
             /\ responseInFlight' = TRUE
        ELSE /\ oaiLog' = Append(oaiLog, app)
             /\ UNCHANGED <<lastCommitAt, responseInFlight>>

\* twilioWS.on("message"), case "media"
TwMedia(len, elapsed) ==
  /\ twState = "open"
  /\ twPhase = "started"
  /\ nMedia < MaxMedia
  /\ nMedia' = nMedia + 1
  /\ LET chunk == <<Run(<<"m", nMedia + 1>>, 0, len, "ulaw")>>
     IN CASE variant = "A1" ->
               /\ IF openaiReady /\ oaiState = "open"
                  THEN MediaBatchUlaw(chunk)
                  ELSE UNCHANGED <<bufVars, oaiLog, ingestQ, oaiState>>
               /\ UNCHANGED turnVars
          [] variant = "SV" ->
               /\ MediaBatchUlaw(chunk)
               /\ UNCHANGED turnVars
          [] variant = "P0" ->
               /\ IF openaiReady /\ oaiState = "open"
                  THEN MediaBatchPcm16k(chunk)
                  ELSE /\ oaiState' = Close(oaiState)
                       /\ UNCHANGED <<bufVars, oaiLog, ingestQ>>
               /\ UNCHANGED turnVars
          [] variant = "A2" ->
               IF openaiReady /\ streamSid # NULL
               THEN MediaThrottled(chunk, elapsed)
               ELSE UNCHANGED <<bufVars, turnVars, oaiLog, ingestQ, oaiState>>
          [] variant = "P1" ->
               IF openaiReady
               THEN MediaThrottled(chunk, elapsed)
               ELSE UNCHANGED <<bufVars, turnVars, oaiLog, ingestQ, oaiState>>
  /\ UNCHANGED <<cfgVars, twPhase, streamSid, twState, frTimers, pacerQ, returned, twLog, nDelta,
                 nResp, nextOrd>>

\* server.js: the callback of the append's send(data, cb) settles the awaited
\* promise; an error rejects it and ends the handler.
IngestCallback ==
  /\ \E i \in 1..Len(ingestQ) :
       /\ ingestQ[i].pc = "cb"
       /\ \A j \in 1..(i - 1) : ingestQ[j].pc # "cb"
       /\ \E ok \in (IF oaiState = "open" THEN {TRUE} ELSE BOOLEAN) :
            ingestQ' = IF ok THEN [ingestQ EXCEPT ![i].pc = "sleep"]
                       ELSE SubSeq(ingestQ, 1, i - 1) \o SubSeq(ingestQ, i + 1, Len(ingestQ))
  /\ UNCHANGED <<cfgVars, bufVars, turnVars, envVars, twPhase, streamSid, twState,
                 oaiState, frTimers, pacerQ, returned, oaiLog, twLog, nextOrd>>

\* The ingestion delay of the oldest suspended media handler elapses: commit,
\* then the first-response step of the variant.
IngestResume ==
  /\ ingestQ # <<>>
  /\ Head(ingestQ).pc = "sleep"
  /\ ingestQ' = Tail(ingestQ)
  /\ \E res \in SendResults(oaiState) :
     LET com == OaiOut("input_audio_buffer.commit", <<>>, "media", res, responseInFlight)
         crt == OaiOut("response.create", <<>>, "first", res, responseInFlight)
         direct == variant = "SV" /\ res # "threw"
                     /\ ~firstResponseRequested /\ ~responseInFlight
     IN /\ oaiLog' = IF direct THEN oaiLog \o <<com, crt>> ELSE Append(oaiLog, com)
        /\ firstResponseRequested' = IF direct THEN TRUE ELSE firstResponseRequested
        /\ responseInFlight' = IF direct THEN TRUE ELSE responseInFlight
        /\ frTimers' = IF variant \in {"A1", "P0"} /\ res # "threw" /\ ~firstResponseRequested
                       THEN frTimers + 1 ELSE frTimers
        /\ oaiState' = IF variant = "P0" /\ res # "threw" THEN Close(oaiState) ELSE oaiState
  /\ UNCHANGED <<cfgVars, bufVars, envVars, twPhase, streamSid, twState, openaiReady,
                 lastCommitAt, pacerQ, returned, twLog, nextOrd>>

\* The setTimeout callback scheduled after a commit (aiAgent.js first module, part_000).
FirstResponseTimer ==
  /\ frTimers > 0
  /\ frTimers' = frTimers - 1
  /\ IF oaiState = "open" /\ ~responseInFlight
     THEN /\ oaiLog' = Append(oaiLog,
                OaiOut("response.create", <<>>, "first", "sent", responseInFlight))
          /\ firstResponseRequested' = TRUE
          /\ responseInFlight' = TRUE
     ELSE UNCHANGED <<oaiLog, firstResponseRequested, responseInFlight>>
  /\ UNCHANGED <<cfgVars, bufVars, envVars, twPhase, streamSid, twState, oaiState,
                 openaiReady, lastCommitAt, ingestQ, pacerQ, returned, twLog, nextOrd>>

\* twilioWS.on("message"), case "stop"
TwStop ==
  /\ twState = "open"
  /\ twPhase = "started"
  /\ twPhase' = "stopped"
  /\ oaiState' = Close(oaiState)
  /\ UNCHANGED <<cfgVars, bufVars, turnVars, envVars, streamSid, twState, ingestQ,
                 frTimers, pacerQ, returned, oaiLog, twLog, nextOrd>>

\* twilioWS.on("close")
TwClosed ==
  /\ twState \in {"open", "closing"}
  /\ twState' = "closed"
  /\ ping' = [ping EXCEPT !.interval = IF HasKeepalive(variant) THEN "cleared" ELSE @]
  /\ oaiState' = Close(oaiState)
  /\ UNCHANGED <<baseVars, bufVars, turnVars, envVars, twPhase, streamSid, ingestQ,
                 frTimers, pacerQ, returned, oaiLog, twLog, nextOrd>>

\* ------------------------------------------------------------- keepalive
\* ws.ping(): a ping frame leaves only on an open socket; on any other socket
\* the call throws or is dropped, and the surrounding try { } catch {} ends it.
PingResult(state) == IF state = "open" THEN "sent" ELSE "failed"

\* The body of the setInterval callback: one ping per socket, each in its own
\* try; openaiWS?.ping() is no call at all when no speech socket was made.
PingBoth(tick) ==
  << [sock |-> "twilio", res |-> PingResult(twState), tick |-> tick] >> \o
  (IF oaiState = "none" THEN << >>
   ELSE << [sock |-> "openai", res |-> PingResult(oaiState), tick |-> tick] >>)

\* 15000 ms go by: the interval callback runs if an interval is set and was
\* not cleared; a module without a keepalive interval runs nothing.
KeepaliveTick ==
  /\ ping.ticks < MaxTicks
  /\ ping' = [ping EXCEPT !.ticks = @ + 1,
                          !.log = IF ping.interval = "set" THEN @ \o PingBoth(ping.ticks + 1)
                                  ELSE @]
  /\ UNCHANGED <<baseVars, bufVars, turnVars, envVars, twPhase, streamSid, twState,
                 oaiState, ingestQ, frTimers, pacerQ, returned, oaiLog, twLog, nextOrd>>

\* ------------------------------------------- messages of unexpected structure
BadTwKinds == {"notjson", "noevent", "media_nopayload"}
BadOaiKinds == {"notjson", "notype"}

\* case "media": whether the handler gets to evaluate msg.media.payload.
ReadsPayload(v) ==
  CASE v \in {"A1", "P0"} -> openaiReady /\ oaiState = "open"
    [] v = "SV" -> TRUE
    [] v = "A2" -> openaiReady /\ streamSid # NULL
    [] v = "P1" -> openaiReady

\* twilioWS.on("message") for a message that is not JSON ("notjson"), is a JSON
\* object without an event field ("noevent"), or is a media event without a
\* media object ("media_nopayload").  The first two return early; the third
\* throws a TypeError where msg.media.payload is evaluated, outside any try.
TwMalformed(kind) ==
  /\ twState = "open"
  /\ nBad < MaxBad
  /\ nBad' = nBad + 1
  /\ LET throws == kind = "media_nopayload" /\ ReadsPayload(variant)
     IN /\ escaped' = (escaped \/ throws)
        /\ oaiState' = IF kind = "media_nopayload" /\ variant = "P0" /\ ~throws
                       THEN Close(oaiState)    \* no break: on into case "stop"
                       ELSE oaiState
  /\ UNCHANGED <<variant, pureVars, isoVars, ping, bufVars, turnVars, envVars, twPhase, streamSid, twState, ingestQ,
                 frTimers, pacerQ, returned, oaiLog, twLog, nextOrd>>

\* openaiWS.on("message") for a message that is not JSON, or is a JSON object
\* without a type field: the catch returns, or no branch matches.
OaiMalformed(kind) ==
  /\ oaiState = "open"
  /\ nBad < MaxBad
  /\ nBad' = nBad + 1
  /\ UNCHANGED <<variant, pureVars, escaped, isoVars, ping, bufVars, turnVars, envVars, twPhase, streamSid, twState,
                 oaiState, ingestQ, frTimers, pacerQ, returned, oaiLog, twLog, nextOrd>>

\* ------------------------------------------------ handlers of connection k
\* Each handler as its reads and writes of the session variables; a handler's
\* suspensions are collapsed, and of a paced sender only the call is recorded.
IsoStep(k, s2, calls) ==
  /\ isoEv[1] < MaxIsoEvents
  /\ isoEv' = <<isoEv[1] + 1, k>>
  /\ sessions' = [sessions EXCEPT ![Scope(k)] = s2]
  /\ isoLog' = isoLog \o calls
  /\ UNCHANGED <<variant, pureVars, escaped, nBad, ping, bufVars, turnVars, envVars, twPhase, streamSid,
                 twState, oaiState, ingestQ, frTimers, pacerQ, returned, oaiLog, twLog, nextOrd>>

IsoOaiOpen(k) ==
  LET s == sessions[Scope(k)] IN
  /\ s.oaiState = "connecting"
  /\ IsoStep(k, [s EXCEPT !.oaiState = "open",
                          !.openaiReady = IF variant \in {"A1", "A2", "P1"} THEN TRUE ELSE @,
                          !.responseInFlight = IF variant = "SV" THEN TRUE ELSE @,
                          !.firstResponseRequested = IF variant = "SV" THEN TRUE ELSE @],
             <<>>)

IsoTwStart(k) ==
  LET s == sessions[Scope(k)] IN
  /\ s.twState = "open"
  /\ s.streamSid = NULL
  /\ variant # "P1"
  /\ IsoStep(k, [s EXCEPT !.streamSid = SidOf(k)],
             IF variant \in {"A1", "A2", "P0"}
             THEN <<[sock |-> k, sid |-> SidOf(k), src |-> <<"tone", k>>]>>
             ELSE <<>>)

IsoOaiResponseEvent(k, type) ==
  LET s == sessions[Scope(k)] IN
  /\ s.oaiState = "open"
  /\ IsoStep(k, [s EXCEPT !.responseInFlight = OnRealtimeEvent(type, @)], <<>>)

IsoOaiAudioDelta(k) ==
  LET s == sessions[Scope(k)] IN
  /\ s.oaiState = "open"
  /\ IsoStep(k, s,
             IF variant = "P1" \/ s.streamSid # NULL
             THEN <<[sock |-> k, sid |-> s.streamSid, src |-> <<"d", k>>]>>
             ELSE <<>>)

IsoTwMedia(k, len) ==
  LET s == sessions[Scope(k)]
      chunk == <<Run(<<"m", k>>, 0, len, "ulaw")>>
      chunks1 == push(s.ulawChunks, chunk)
      accum1 == s.ulawBytesAccum + len
      ready == CASE variant = "A1" -> s.openaiReady /\ s.oaiState = "open"
                 [] variant = "SV" -> TRUE
                 [] OTHER -> FALSE
      drain == ShouldSubmit(variant, accum1, s.responseInFlight, s.oaiState)
      first == variant \in {"A1", "SV"} /\ ready /\ drain /\ s.oaiState = "open"
                 /\ ~s.firstResponseRequested /\ ~s.responseInFlight
      turn == /\ variant \in {"A2", "P1"} /\ s.openaiReady /\ ~s.responseInFlight
              /\ (variant = "A2" => s.streamSid # NULL)
  IN
  /\ s.twState = "open"
  /\ IsoStep(k, [s EXCEPT !.ulawChunks = IF ~ready THEN @ ELSE IF drain THEN <<>> ELSE chunks1,
                          !.ulawBytesAccum = IF ~ready THEN @ ELSE IF drain THEN 0 ELSE accum1,
                          !.firstResponseRequested = IF first THEN TRUE ELSE @,
                          !.responseInFlight = IF first \/ turn THEN TRUE ELSE @,
                          !.oaiState = IF variant = "P0" THEN Close(@) ELSE @],
             <<>>)

IsoTwClosed(k) ==
  LET s == sessions[Scope(k)] IN
  /\ s.twState = "open"
  /\ IsoStep(k, [s EXCEPT !.twState = "closed", !.oaiState = Close(@)], <<>>)

\* ------------------------------------------------- one sample through the codec
Samples == INT16_MIN..INT16_MAX
Bytes == 0..255       \* element range of a Buffer / Uint8Array

InitCodec ==
  /\ codec \in {[pc |-> "sample", s |-> s, mu |-> 0, pcm |-> 0, mu2 |-> 0] : s \in Samples}
               \cup {[pc |-> "byte", s |-> 0, mu |-> b, pcm |-> 0, mu2 |-> 0] : b \in Bytes}
  /\ variant = "A1"
  /\ twPhase = "connected"
  /\ streamSid = NULL
  /\ twState = "open"
  /\ oaiState = "none"
  /\ openaiReady = FALSE
  /\ responseInFlight = FALSE
  /\ firstResponseRequested = FALSE
  /\ ulawChunks = <<>>
  /\ ulawBytesAccum = 0
  /\ pcm16kBatch = <<>>
  /\ lastCommitAt = 0
  /\ ingestQ = <<>>
  /\ frTimers = 0
  /\ pacerQ = <<>>
  /\ oaiLog = <<>>
  /\ twLog = <<>>
  /\ accepted = <<>>
  /\ nMedia = 0
  /\ nDelta = 0
  /\ nResp = 0
  /\ nextOrd = 1
  /\ escaped = FALSE
  /\ nBad = 0
  /\ sessions = [k \in Conns |-> NewSession]
  /\ isoLog = <<>>
  /\ isoEv = <<0, 0>>
  /\ up = [pc |-> "idle", in |-> <<>>, out |-> <<>>, reads |-> {}]
  /\ returned = <<>>
  /\ ping = [interval |-> "set", log |-> <<>>, ticks |-> 0]

codecRest_NoUp == <<variant, ping, escaped, nBad, isoVars, bufVars, turnVars, envVars, twPhase,
                    streamSid, twState, oaiState, ingestQ, frTimers, pacerQ, returned, oaiLog, twLog,
                    nextOrd>>

codecRest == <<variant, up, ping, escaped, nBad, isoVars, bufVars, turnVars, envVars, twPhase, streamSid,
               twState, oaiState, ingestQ, frTimers, pacerQ, returned, oaiLog, twLog, nextOrd>>

\* mu[i] = pcm16ToMulaw(int16[i])
Encode ==
  /\ codec.pc = "sample"
  /\ codec' = [codec EXCEPT !.pc = "encoded", !.mu = pcm16ToMulaw(codec.s)]
  /\ UNCHANGED codecRest

\* pcm[i] = mulawToPcm16(u8[i])
Decode ==
  /\ codec.pc = "encoded"
  /\ codec' = [codec EXCEPT !.pc = "decoded", !.pcm = mulawToPcm16(codec.mu)]
  /\ UNCHANGED codecRest

\* --------------------------------------------- one block through the upsampler
UpSamples == {INT16_MIN, -3, 0, 1, INT16_MAX}

RECURSIVE SeqsUpTo(_, _)
SeqsUpTo(S, n) ==
  IF n = 0 THEN {<<>>}
  ELSE LET shorter == SeqsUpTo(S, n - 1)
       IN shorter \cup {Append(xs, x) : xs \in {ys \in shorter : Len(ys) = n - 1}, x \in S}

InitUp ==
  /\ up \in {[pc |-> "in", in |-> xs, out |-> <<>>, reads |-> {}] : xs \in SeqsUpTo(UpSamples, MaxUpLen)}
  /\ returned = <<>>
  /\ ping = [interval |-> "set", log |-> <<>>, ticks |-> 0]
  /\ codec = [pc |-> "idle", s |-> 0, mu |-> 0, pcm |-> 0, mu2 |-> 0]
  /\ variant = "P0"
  /\ twPhase = "connected"
  /\ streamSid = NULL
  /\ twState = "open"
  /\ oaiState = "none"
  /\ openaiReady = FALSE
  /\ responseInFlight = FALSE
  /\ firstResponseRequested = FALSE
  /\ ulawChunks = <<>>
  /\ ulawBytesAccum = 0
  /\ pcm16kBatch = <<>>
  /\ lastCommitAt = 0
  /\ ingestQ = <<>>
  /\ frTimers = 0
  /\ pacerQ = <<>>
  /\ oaiLog = <<>>
  /\ twLog = <<>>
  /\ accepted = <<>>
  /\ nMedia = 0
  /\ nDelta = 0
  /\ nResp = 0
  /\ nextOrd = 1
  /\ escaped = FALSE
  /\ nBad = 0
  /\ sessions = [k \in Conns |-> NewSession]
  /\ isoLog = <<>>
  /\ isoEv = <<0, 0>>

\* const pcm16k = upsampleTo16k(pcm8k)
Upsample ==
  /\ up.pc = "in"
  /\ LET r == UpsampleLoop(up.in, 0, <<>>, {})
     IN up' = [up EXCEPT !.pc = "out", !.out = r.out, !.reads = r.reads]
  /\ UNCHANGED <<codec, codecRest_NoUp>>

\* pcm[i] = mulawToPcm16(u8[i]) for a byte received from the telephony leg
DecodeByte ==
  /\ codec.pc = "byte"
  /\ codec' = [codec EXCEPT !.pc = "bytedecoded", !.pcm = mulawToPcm16(codec.mu)]
  /\ UNCHANGED codecRest

\* mu[i] = pcm16ToMulaw(int16[i]) for a sample that came out of the decoder
EncodeAgain ==
  /\ codec.pc = "bytedecoded"
  /\ codec' = [codec EXCEPT !.pc = "reencoded", !.mu2 = pcm16ToMulaw(codec.pcm)]
  /\ UNCHANGED codecRest

\* ------------------------------------------------------------------- Next
\* Caller audio towards the speech service, and the turn state: every handler
\* but the audio deltas (the only paced block is the test tone).
NextIn ==
  \/ OaiOpen
  \/ \E type \in {"response.created", "response.completed", "response.error"} :
       OaiResponseEvent(type)
  \/ OaiClosed
  \/ PacerWake
  \/ TwStart(ToneMsIn)
  \/ \E len \in PayloadLens, elapsed \in BOOLEAN : TwMedia(len, elapsed)
  \/ IngestCallback
  \/ IngestResume
  \/ FirstResponseTimer
  \/ TwStop
  \/ TwClosed

SpecIn == Init /\ [][NextIn]_vars

\* Response audio towards the telephony leg: every handler but the well-formed
\* media events and the response life-cycle events.
NextOut ==
  \/ OaiOpen
  \/ \E kind \in BadTwKinds : TwMalformed(kind)
  \/ \E kind \in BadOaiKinds : OaiMalformed(kind)
  \/ \E len \in DeltaLens : OaiAudioDelta(len)
  \/ OaiClosed
  \/ PacerWake
  \/ TwStart(ToneMsOut)
  \/ TwStop
  \/ TwClosed

SpecOut == Init /\ [][NextOut]_vars

\* The start event with the tone the code asks for (2 s), and its delivery.
NextPing ==
  \/ OaiOpen
  \/ OaiClosed
  \/ TwStart(ToneMsIn)
  \/ PacerWake
  \/ TwStop
  \/ TwClosed
  \/ KeepaliveTick

SpecPing == Init /\ [][NextPing]_vars

NextTone ==
  \/ OaiOpen
  \/ PacerWake
  \/ TwStart(ToneMs)
  \/ TwClosed

SpecTone == Init /\ [][NextTone]_vars

\* Every 16-bit sample encoded and decoded again, every byte decoded and encoded again.
NextCodec ==
  \/ Encode
  \/ Decode
  \/ DecodeByte
  \/ EncodeAgain

SpecCodec == InitCodec /\ [][NextCodec]_vars

\* Every block of up to MaxUpLen samples upsampled.
NextUp == Upsample

SpecUp == InitUp /\ [][NextUp]_vars

\* Two connections served at once by the same module.
NextIso ==
  \E k \in Conns :
    \/ IsoOaiOpen(k)
    \/ IsoTwStart(k)
    \/ \E type \in {"response.created", "response.completed", "response.error"} :
         IsoOaiResponseEvent(k, type)
    \/ IsoOaiAudioDelta(k)
    \/ \E len \in PayloadLens : IsoTwMedia(k, len)
    \/ IsoTwClosed(k)

SpecIso == Init /\ [][NextIso]_vars

\* ------------------------------------------------------------ properties
Batching == {"A1", "SV", "P0"}

IsOut(e, type) == e.dir = "out" /\ e.type = type
IsIn(e, types) == e.dir = "in" /\ e.type \in types

Done == {"response.completed", "response.error"}

\* C1: in the batching variants no input_audio_buffer.append is sent while
\* responseInFlight is true.
C1_NoAppendWhileInFlight ==
  variant \in Batching =>
    \A i \in 1..Len(oaiLog) : IsOut(oaiLog[i], "input_audio_buffer.append") => ~oaiLog[i].rif

\* C2: frames of two paced blocks are never interleaved on the telephony socket:
\* a block that began pacing earlier has all its frames sent before any frame of
\* a later block.
C2_BlocksSerialized ==
  \A i, j \in 1..Len(twLog) : i < j => twLog[i].ord <= twLog[j].ord

\* C3: at most one response.create is sent by the first-response path (deferred
\* timer, on-open greeting, post-commit request) over the life of a session.
C3_FirstResponseOnce ==
  variant \in Batching =>
    Cardinality({i \in 1..Len(oaiLog) :
                   /\ IsOut(oaiLog[i], "response.create")
                   /\ oaiLog[i].src \in {"first", "greeting"}
                   /\ oaiLog[i].res = "sent"}) <= 1

\* C4: a submission moves the turn state to RESPONSE_IN_FLIGHT: after an append
\* no further append is sent until a response.completed or response.error has
\* been received.
C4_SubmitThenWait ==
  variant \in Batching =>
    \A i, j \in 1..Len(oaiLog) :
      (i < j /\ IsOut(oaiLog[i], "input_audio_buffer.append")
             /\ IsOut(oaiLog[j], "input_audio_buffer.append"))
        => \E k \in (i + 1)..(j - 1) : IsIn(oaiLog[k], Done)

\* The accumulation buffer and its submission threshold.
CurrentBuffer == IF variant = "P0" THEN pcm16kBatch ELSE Flatten(ulawChunks)
Threshold == IF variant = "P0" THEN APPEND_SAMPLES_16K ELSE APPEND_THRESHOLD

RECURSIVE SentAudio(_)
SentAudio(log) ==
  IF log = <<>> THEN <<>>
  ELSE (IF IsOut(Head(log), "input_audio_buffer.append") THEN Head(log).audio ELSE <<>>)
         \o SentAudio(Tail(log))

LastOf(log) == log[Len(log)]

C6_FifoLossless ==
  variant \in Batching =>
    Coalesce(SentAudio(oaiLog) \o CurrentBuffer) = Coalesce(accepted)

C6_Witness ==
  /\ variant \in Batching
  /\ \E i \in 1..Len(oaiLog) :
       IsOut(oaiLog[i], "input_audio_buffer.append") /\ Len(oaiLog[i].audio) >= 2
  /\ CurrentBuffer # <<>>
  /\ ingestQ # <<>>

\* C7: every block submitted in an input_audio_buffer.append has exactly the
\* threshold length.
C7_DrainExactlyThreshold ==
  variant \in Batching =>
    \A i \in 1..Len(oaiLog) :
      IsOut(oaiLog[i], "input_audio_buffer.append")
        => ByteLength(oaiLog[i].audio) = Threshold

\* C8: a media handler starts only when no earlier media handler is suspended in
\* its ingestion delay and the start handler's test tone is not being paced.
C8_HandlersOneAtATime ==
  [][ nMedia' = nMedia + 1
        => (ingestQ = <<>> /\ \A k \in 1..Len(pacerQ) : pacerQ[k].block[1].src # TONE) ]_vars

\* The paced frames of the block that began pacing as number o, in send order.
FramesOf(o) ==
  LET IsFrame(e) == e.ord = o /\ e.fn # "direct"
  IN SelectSeq(twLog, IsFrame)

RECURSIVE Payloads(_)
Payloads(fs) == IF fs = <<>> THEN <<>> ELSE Head(fs).payload \o Payloads(Tail(fs))

CeilDiv(a, b) == (a + b - 1) \div b

Suspended(o) == \E k \in 1..Len(pacerQ) : pacerQ[k].ord = o

\* C9: without a send failure a paced sender sends the frames of its block
\* strictly in sequence, the k-th carrying the companded samples
\* [160k, min(160k + 160, N)), suspends once after each send, and has sent
\* ceil(N / 160) frames (2 for N = 320) making up the whole companded block when
\* it returns.
C9_PacedFramesInSequence ==
  \A o \in 1..(nextOrd - 1) :
    LET fs == FramesOf(o)
    IN (fs # <<>> /\ \A k \in 1..Len(fs) : fs[k].res = "sent") =>
         LET block == fs[1].block
             N == ByteLength(block)
         IN /\ \A k \in 1..Len(fs) :
                 /\ fs[k].off = FRAME * (k - 1)
                 /\ fs[k].off < N
                 /\ fs[k].payload = SetFmt(subarray(block, fs[k].off, Min(fs[k].off + FRAME, N)),
                                           "ulaw")
            /\ \A k \in 1..Len(pacerQ) :
                 pacerQ[k].ord = o => pacerQ[k].i = FRAME * Len(fs)
            /\ ~Suspended(o) =>
                 /\ Len(fs) = CeilDiv(N, FRAME)
                 /\ Coalesce(Payloads(fs)) = SetFmt(block, "ulaw")
                 /\ (N = 320 => Len(fs) = 2)

C9_Witness ==
  \E o1, o2 \in 1..(nextOrd - 1) :
    /\ ~Suspended(o1) /\ ~Suspended(o2)
    /\ Len(FramesOf(o1)) = 2 /\ FramesOf(o1)[1].block[1].len = 320
    /\ Len(FramesOf(o2)) = 3 /\ FramesOf(o2)[1].block[1].len = 400
    /\ \A k \in 1..Len(twLog) : twLog[k].res = "sent"

\* C10: when the send of a frame fails, no later frame of that block is sent or
\* attempted, and the failed frame is not retried.
C10_AbortOnSendFailure ==
  \A i, j \in 1..Len(twLog) :
    (i < j /\ twLog[i].fn # "direct" /\ twLog[i].res = "threw")
      => twLog[j].ord # twLog[i].ord

\* C11: every media message on the telephony socket carries the streamSid
\* recorded from the start event; none is sent while streamSid is unset.
C11_MediaOnlyWithStreamSid ==
  \A i \in 1..Len(twLog) : twLog[i].kind = "media" => twLog[i].sid = SID

\* C12: once the close handler of one socket has run, the other socket is no
\* longer open (close() has been called on it).
C12_TeardownBothWays ==
  /\ oaiState = "closed" => twState # "open"
  /\ twState = "closed" => oaiState \notin {"connecting", "open"}

C14_TeardownCancelsPacing ==
  [][ twState = "closed" => twLog' = twLog ]_vars

\* C15: handling a message without the expected structure changes no session
\* variable, sends nothing on either socket and lets no exception leave the handler.
C15_MalformedDiscarded ==
  [][ nBad' = nBad + 1 =>
        UNCHANGED <<escaped, bufVars, turnVars, twPhase, streamSid, twState, oaiState,
                    ingestQ, frTimers, pacerQ, returned, oaiLog, twLog>> ]_vars

\* C16: an event handled for one connection leaves the session variables and
\* sockets of the other connection unchanged, and every paced-sender call made
\* for the audio of a connection is made on that connection's telephony socket
\* with that connection's streamSid.
C16_SessionsIsolated ==
  [][ \A k \in Conns :
        /\ (isoEv' # isoEv /\ isoEv'[2] # k) => sessions'[Scope(k)] = sessions[Scope(k)]
        /\ \A i \in 1..Len(isoLog') :
             isoLog'[i].src[2] = k =>
               /\ isoLog'[i].sock = k
               /\ isoLog'[i].sid \in {NULL, SidOf(k)} ]_vars

C16_Witness ==
  /\ sessions[1].streamSid = SID /\ sessions[2].streamSid = "SID2"
  /\ sessions[1].responseInFlight /\ ~sessions[2].responseInFlight
  /\ sessions[1].ulawChunks = <<>> /\ sessions[2].ulawChunks # <<>>
  /\ \E i \in 1..Len(isoLog) :
       isoLog[i].src = <<"d", 1>> /\ isoLog[i].sid = SID /\ isoLog[i].sock = 1
  /\ isoEv[2] = 2

\* The media messages sent on the telephony socket so far, in send order.
MediaSent ==
  LET IsMedia(e) == e.kind = "media" IN SelectSeq(twLog, IsMedia)

\* C17: in the variants that play the test tone, once the start event has been
\* handled and the delivery of the tone has ended without a failed send, the
\* telephony socket has been sent exactly 100 media messages, the k-th carrying
\* the 160 companded tone samples from 160(k-1) on, each addressed to the stream.
C17_ToneAs100Frames ==
  (/\ variant \in {"A1", "A2", "P0"}
   /\ twPhase = "started"
   /\ pacerQ = <<>>
   /\ \A i \in 1..Len(twLog) : twLog[i].res = "sent")
    => /\ Len(MediaSent) = 100
       /\ \A k \in 1..Len(MediaSent) :
            /\ MediaSent[k].sid = SID
            /\ MediaSent[k].payload = <<Run(TONE, 160 * (k - 1), 160, "ulaw")>>

\* C18: in part_000, a media event handled while the speech socket is open and
\* the turn state is idle is decoded, upsampled and added to the batch (the
\* first step of ten 160-byte events making one 3200-sample submission), and the
\* speech socket stays open for the submission.
C18_Pcm16kMediaAccumulates ==
  [][ (variant = "P0" /\ nMedia' = nMedia + 1 /\ oaiState = "open" /\ ~responseInFlight)
        => (ByteLength(accepted') > ByteLength(accepted) /\ oaiState' = "open") ]_vars

\* C19: every media message sent on the telephony socket carries a payload of
\* exactly 160 companded bytes.
C19_PayloadIsOneFrame ==
  \A i \in 1..Len(twLog) :
    twLog[i].kind = "media" => ByteLength(twLog[i].payload) = 160

Abs(x) == IF x < 0 THEN -x ELSE x

\* The sample with its magnitude clamped to 32635, as the encoder sees it.
Clamped(x) == IF x > 32635 THEN 32635 ELSE IF x < -32635 THEN -32635 ELSE x

\* The segment (exponent field) of a companded byte.
SegmentOf(mu) == Shr(BitsAt(NotByte(mu), 4, 3), 4)

\* C20: every 16-bit sample encodes to a byte 0..255, and decoding that byte
\* gives a value within one quantization step of the sample's segment,
\* 8 * 2^segment, of the sample clamped to magnitude 32635.
C20_RoundTripWithinStep ==
  /\ codec.pc \in {"encoded", "decoded"} => codec.mu \in 0..255
  /\ codec.pc = "decoded" =>
       Abs(codec.pcm - Clamped(codec.s)) <= 8 * (2 ^ SegmentOf(codec.mu))

\* C21: decoding a companded byte and encoding the result gives a byte of the
\* same sign and segment whose code value differs from the original by at most one.
C21_ByteRoundTripNearIdentity ==
  codec.pc = "reencoded" =>
    /\ codec.mu2 \div 16 = codec.mu \div 16
    /\ Abs(codec.mu2 - codec.mu) <= 1

\* The canonical G.711 u-law expansion in arithmetic form: with u the
\* complemented byte, mantissa m = u mod 16 and segment e = (u div 16) mod 8,
\* magnitude (2m + 33) * 2^(e + 2) - 132, negative when u >= 128.
G711Expand(b) ==
  LET u == 255 - b
      m == u % 16
      e == (u \div 16) % 8
      magnitude == (2 * m + 33) * (2 ^ (e + 2)) - 132
  IN IF u >= 128 THEN -magnitude ELSE magnitude

\* C22: for each of the 256 byte values mulawToPcm16 returns the value of the
\* canonical decoder, which lies in [-32124, 32124].
C22_DecoderIsCanonical ==
  codec.pc \in {"bytedecoded", "reencoded"} =>
    /\ codec.pcm = G711Expand(codec.mu)
    /\ codec.pcm >= -32124 /\ codec.pcm <= 32124
    /\ codec.pcm \in Samples

C22_Witness ==
  codec.pc = "bytedecoded" /\ codec.mu = 0 /\ codec.pcm = -32124

\* C23: for a block of N samples upsampleTo16k returns 2N samples with
\* out[2i] = in[i], out[2i+1] = floor((in[i] + in[i+1]) / 2) for i < N - 1 and
\* out[2N-1] = in[N-1]; it reads no index outside the block, and every output
\* value is a signed 16-bit value.  (Sequences are 1-based: out[2i] is out[2i+1] here.)
C23_UpsampleInterpolates ==
  up.pc = "out" =>
    LET N == Len(up.in) IN
    /\ Len(up.out) = 2 * N
    /\ up.reads \subseteq 0..(N - 1)
    /\ \A i \in 0..(N - 1) :
         /\ up.out[2 * i + 1] = up.in[i + 1]
         /\ i < N - 1 =>
              /\ 2 * up.out[2 * i + 2] <= up.in[i + 1] + up.in[i + 2]
              /\ up.in[i + 1] + up.in[i + 2] <= 2 * up.out[2 * i + 2] + 1
         /\ i = N - 1 => up.out[2 * N] = up.in[N]
    /\ \A j \in 1..Len(up.out) : up.out[j] \in Samples

C23_Witness ==
  /\ up.pc = "out"
  /\ up.in = <<-3, 0, INT16_MAX>>
  /\ up.out = <<-3, -2, 0, 16383, INT16_MAX, INT16_MAX>>

\* Over the paced blocks 1..o that carry response audio: the samples received
\* from the speech service, and the companded bytes sent to the telephony leg.
RECURSIVE DeltaSamples(_)
DeltaSamples(o) ==
  IF o = 0 THEN 0
  ELSE DeltaSamples(o - 1) +
       (IF FramesOf(o) # <<>> /\ FramesOf(o)[1].block[1].src[1] = "d"
        THEN ByteLength(FramesOf(o)[1].block) ELSE 0)

RECURSIVE DeltaBytesSent(_)
DeltaBytesSent(o) ==
  IF o = 0 THEN 0
  ELSE DeltaBytesSent(o - 1) +
       (IF FramesOf(o) # <<>> /\ FramesOf(o)[1].block[1].src[1] = "d"
        THEN ByteLength(Payloads(FramesOf(o))) ELSE 0)

\* C24: in part_000, once the response audio received so far (M linear samples
\* over all deltas) has been paced out without a failed send, the telephony leg
\* has received floor(M / 2) companded bytes of it.
C24_DownConvertedOutput ==
  (/\ variant = "P0"
   /\ pacerQ = <<>>
   /\ \A i \in 1..Len(twLog) : twLog[i].res = "sent")
    => DeltaBytesSent(nextOrd - 1) = DeltaSamples(nextOrd - 1) \div 2

\* The messages added to the speech-socket log by the current step.
NewOai == SubSeq(oaiLog', Len(oaiLog) + 1, Len(oaiLog'))

\* What C25 asks of a single step.
TurnStateFrameStep ==
  /\ responseInFlight' # responseInFlight =>
       \E k \in 1..Len(NewOai) :
          \/ IsIn(NewOai[k], {"response.created", "response.completed", "response.error"})
          \/ IsOut(NewOai[k], "response.create")
  /\ (responseInFlight /\ ~responseInFlight') =>
       \E k \in 1..Len(NewOai) : IsIn(NewOai[k], Done)
  /\ (responseInFlight /\ nMedia' = nMedia + 1) =>
       \A k \in 1..Len(NewOai) :
          ~IsOut(NewOai[k], IF variant \in Batching THEN "input_audio_buffer.append"
                            ELSE "input_audio_buffer.commit")

\* C25: responseInFlight changes only in a step that handles response.created,
\* response.completed or response.error or sends response.create; it goes from
\* true to false only on response.completed or response.error; and while it is
\* true no batch is submitted (no input_audio_buffer.append in the batching
\* variants, no commit in the throttled ones).
C25_TurnStateFrame == [][TurnStateFrameStep]_vars

\* Whether the block of paced-sender call ord was cut short by a throwing send.
Aborted(ord) == \E i \in 1..Len(twLog) : twLog[i].ord = ord /\ twLog[i].res = "threw"

\* Whether every frame of the block of call ord went out.
FullySent(ord) ==
  /\ \E i \in 1..Len(twLog) : twLog[i].ord = ord
  /\ \A i \in 1..Len(twLog) :
        twLog[i].ord = ord =>
          /\ twLog[i].res = "sent"
          /\ Cardinality({j \in 1..Len(twLog) : twLog[j].ord = ord})
               = CeilDiv(ByteLength(twLog[i].block), frameSamples)

\* C26: of two finished paced-sender calls, one aborted by a failed send and
\* one that sent its whole block, the awaiting caller gets different outcomes
\* (a rejection, or a different returned value).
C26_AbortReportedToCaller ==
  \A a, b \in 1..Len(returned) :
     (Aborted(returned[a].ord) /\ FullySent(returned[b].ord)) =>
        <<returned[a].settled, returned[a].value>> # <<returned[b].settled, returned[b].value>>

\* The session has been torn down: the stop event was handled, or one of the
\* two sockets has closed.
TornDown == twPhase = "stopped" \/ twState = "closed" \/ oaiState = "closed"

\* The ping attempts added by the current step.
NewPings == SubSeq(ping'.log, Len(ping.log) + 1, Len(ping'.log))

\* C27: once the session is torn down, a keepalive tick sends no ping on
\* either socket.
C27_NoPingAfterTeardown ==
  [][ (TornDown /\ ping'.ticks = ping.ticks + 1) =>
        \A k \in 1..Len(NewPings) : NewPings[k].res # "sent" ]_vars

\* C28: at every keepalive tick with both sockets open, a ping is sent on the
\* telephony socket and a ping is sent on the speech socket, in every variant.
C28_PingBothEveryTick ==
  [][ (twState = "open" /\ oaiState = "open" /\ ping'.ticks = ping.ticks + 1) =>
        \A sock \in {"twilio", "openai"} :
           \E k \in 1..Len(NewPings) : NewPings[k].sock = sock /\ NewPings[k].res = "sent" ]_vars

\* C29: close() of the speech socket takes effect only in a step that handles
\* the telephony stop event or the close of the telephony socket; in
\* particular no step that handles or resumes a media event closes it.
C29_MediaKeepsSpeechSocket ==
  [][ (oaiState' # oaiState /\ oaiState' = "closing") =>
        \/ (twPhase # "stopped" /\ twPhase' = "stopped")
        \/ (twState # "closed" /\ twState' = "closed") ]_vars

\* The input_audio_buffer.append and .commit send attempts, in order.
AppendsAndCommits ==
  LET IsEither(e) == IsOut(e, "input_audio_buffer.append") \/ IsOut(e, "input_audio_buffer.commit")
  IN SelectSeq(oaiLog, IsEither)

\* C30: in the batching variants, when no such send has failed, the appends and
\* commits on the speech socket alternate, beginning with an append.
C30_AppendCommitAlternate ==
  (/\ variant \in Batching
   /\ \A k \in 1..Len(AppendsAndCommits) : AppendsAndCommits[k].res = "sent")
    => \A k \in 1..Len(AppendsAndCommits) :
          AppendsAndCommits[k].type = IF k % 2 = 1 THEN "input_audio_buffer.append"
                                      ELSE "input_audio_buffer.commit"

\* C31: in the first aiAgent.js module and part_000, no
\* input_audio_buffer.commit is sent at a moment when responseInFlight is true.
C31_CommitOnlyWhenIdle ==
  variant \in {"A1", "P0"} =>
    \A k \in 1..Len(oaiLog) :
       IsOut(oaiLog[k], "input_audio_buffer.commit") => ~oaiLog[k].rif

\* The indices of oaiLog at which the bridge sends response.create.
Creates == {k \in 1..Len(oaiLog) : IsOut(oaiLog[k], "response.create")}

\* C32: between two response.create messages of a session (the greeting
\* included) the speech service has reported response.completed or
\* response.error.
C32_OneOutstandingResponse ==
  \A a, b \in Creates :
     a < b => \E k \in (a + 1)..(b - 1) : IsIn(oaiLog[k], Done)

Throttled == {"A2", "P1"}

\* The indices of oaiLog at which the bridge sends input_audio_buffer.commit.
Commits == {k \in 1..Len(oaiLog) : IsOut(oaiLog[k], "input_audio_buffer.commit")}

\* C33: in the throttled variants every input_audio_buffer.commit is directly
\* followed on the speech socket by a response.create, the step that sends a
\* commit leaves responseInFlight true, and between two commits a
\* response.completed or response.error has been received.
C33_CommitThenCreate ==
  /\ [](variant \in Throttled =>
          /\ \A k \in Commits : k < Len(oaiLog) /\ IsOut(oaiLog[k + 1], "response.create")
          /\ \A a, b \in Commits :
                a < b => \E k \in (a + 1)..(b - 1) : IsIn(oaiLog[k], Done))
  /\ [][ (variant \in Throttled
           /\ \E k \in 1..Len(NewOai) : IsOut(NewOai[k], "input_audio_buffer.commit"))
          => responseInFlight' ]_vars

\* Two commits have been sent in a throttled variant.
C33_Witness ==
  /\ variant \in Throttled
  /\ Cardinality(Commits) >= 2
  /\ \A k \in Commits : oaiLog[k].res = "sent"

\* The open handler of the speech socket has run: it is the only sender of
\* session.update.
OpenHandled == \E k \in 1..Len(oaiLog) : IsOut(oaiLog[k], "session.update")

\* C34: in the variants that test openaiReady, the flag is false until the
\* open handler of the speech socket has run and true ever after.
C34_ReadyIffOpened ==
  variant \in {"A1", "A2", "P0", "P1"} => (openaiReady <=> OpenHandled)

UlawBatching == {"A1", "SV"}

\* The audio accepted by the current step.
NewAccepted == SubSeq(accepted', Len(accepted) + 1, Len(accepted'))

\* C35: in the u-law batching variants the byte counter equals the total
\* length of the chunks held between handler steps, and a step that drains
\* empties both and appends exactly the held chunks followed by the new one:
\* nothing cut off, nothing zero-filled.
C35_CounterMatchesChunks ==
  /\ [](variant \in UlawBatching => ulawBytesAccum = ByteLength(Flatten(ulawChunks)))
  /\ [][ (variant \in UlawBatching
           /\ \E k \in 1..Len(NewOai) : IsOut(NewOai[k], "input_audio_buffer.append"))
          => /\ ulawChunks' = <<>>
             /\ ulawBytesAccum' = 0
             /\ \A k \in 1..Len(NewOai) :
                   IsOut(NewOai[k], "input_audio_buffer.append") =>
                     NewOai[k].audio = Flatten(ulawChunks) \o NewAccepted ]_vars

\* A drain has combined a 160-byte chunk and an 800-byte chunk into one block.
C35_Witness ==
  /\ variant \in UlawBatching
  /\ ulawChunks = <<>>
  /\ \E k \in 1..Len(oaiLog) :
        /\ IsOut(oaiLog[k], "input_audio_buffer.append")
        /\ Len(oaiLog[k].audio) = 2
        /\ ByteLength(oaiLog[k].audio) = 960

\* The indices of twLog at which a frame carrying a sequenceNumber was sent.
Numbered ==
  {i \in 1..Len(twLog) : twLog[i].fn = "sendMuLawFramesPaced" /\ twLog[i].res = "sent"}

\* C36: in the second aiAgent.js module, of two frames sent on the telephony
\* socket the later one carries the greater sequenceNumber.
C36_SequenceNumbersIncrease ==
  variant = "A2" =>
    \A i, j \in Numbered : i < j => twLog[i].seq < twLog[j].seq

====
